---- MODULE Spec2Model ----
(***************************************************************************)
(* Model of the UnionFind partition table of src/src/lib.rs.               *)
(*                                                                         *)
(* The table is the vector `parts`.  Every public method is a call that    *)
(* starts in the idle state; the two loops of find / find_only are run one *)
(* iteration per step, so that a loop that never exits is a behaviour that *)
(* never returns to the idle state.                                        *)
(***************************************************************************)
EXTENDS Integers, FiniteSets, TLC

\* Largest table size new(n) is called with, and largest argument tried.
MaxN == 3

\* Largest table size in the specification of union and find alone, where
\* paths of three elements below a root exist.
MaxDeep == 4

\* "no element": the value of a call that returns no element, and the
\* result of a root walk that never reaches a root.
None == -1

VARIABLES
    parts,      \* self.parts: element -> parent element (0-indexed vector)
    pc,         \* "idle" | "seek" | "compress" | "panicked"
    op,         \* the method being run, or the last one that returned
    i, j,       \* its arguments
    phase,      \* same / same_only: 1 = left operand of ==, 2 = right operand
    p, s,       \* locals of find / find_only
    r1,         \* same / same_only: value of the left operand
    ret,        \* element returned by the last find / find_only
    same_ret,   \* boolean returned by the last same / same_only
    parts0,     \* history: self.parts when the current/last call started
    found,      \* history: an earlier find(i) -> ret, no union since then
    compressed, \* history: a find or same ran before the current/last call
    unioned,    \* history: classes of the closure of the pairs given to union
    n,          \* the argument of new(n)
    label,      \* scripted caller: the representative chosen for each element
    next_i      \* scripted caller: the next value of its for-loop variable

vars == <<parts, pc, op, i, j, phase, p, s, r1, ret, same_ret,
          parts0, found, compressed, unioned, n, label, next_i>>

Args == 0 .. MaxN

\* NewParts pushing a constant: parts.push(0)
NewParts_PushZero(m) == [k \in 0 .. (m - 1) |-> 0]

\* Vec<usize> filled by new(m): parts[k] = k for k in 0..m.
NewParts(m) == [k \in 0 .. (m - 1) |-> k]

len(f) == Cardinality(DOMAIN f)

Valid(f, x) == x \in DOMAIN f

----------------------------------------------------------------------------
\* The root walk of find_only (and of the first loop of find) on table f,
\* as a function: the root reached from x, or None when the loop never
\* exits.  The loop reads f only, so after len(f) iterations without a root
\* it has revisited an element and repeats for ever.
RECURSIVE Walk(_, _, _)
Walk(f, x, fuel) ==
    IF f[x] = x THEN x
    ELSE IF fuel = 0 THEN None
    ELSE Walk(f, f[x], fuel - 1)

find_only(f, x) == Walk(f, x, len(f))

same_only(f, x, y) == find_only(f, x) = find_only(f, y)

----------------------------------------------------------------------------
\* History only: the classes of the reflexive-symmetric-transitive closure
\* of the pairs passed to union, after one more pair (a, b).
ClassOf(cs, x) == CHOOSE c \in cs : x \in c

Link(cs, a, b) ==
    (cs \ {ClassOf(cs, a), ClassOf(cs, b)})
        \cup {ClassOf(cs, a) \cup ClassOf(cs, b)}

Connected(a, b) == \E c \in unioned : a \in c /\ b \in c

NoFind == [i |-> None, ret |-> None, adj |-> FALSE]

\* No scripted caller: no element has a chosen representative.
NoLabel == [x \in {} |-> x]

----------------------------------------------------------------------------
\* The table after new(m).
New(m) ==
        /\ n = m
        /\ parts = NewParts(m)
        /\ pc = "idle"
        /\ op = "new"
        /\ i = m
        /\ j = m
        /\ phase = 1
        /\ p = 0
        /\ s = 0
        /\ r1 = None
        /\ ret = None
        /\ same_ret = FALSE
        /\ parts0 = NewParts(m)
        /\ found = NoFind
        /\ compressed = FALSE
        /\ unioned = {{k} : k \in 0 .. (m - 1)}

\* new(n) for any n, called by a caller that follows no script.
Init ==
    \E m \in 0 .. MaxN :
        /\ New(m)
        /\ label = NoLabel
        /\ next_i = 0

\* History only: the earlier find calls the next call o can be compared
\* with.  A union forgets them; otherwise it is the find that has just
\* returned (adj: directly before the next call), or an older one.
Earlier(o) ==
    IF o = "union" THEN {NoFind}
    ELSE IF op = "find" /\ pc = "idle"
         THEN {[i |-> i, ret |-> ret, adj |-> TRUE],
               [found EXCEPT !.adj = FALSE]}
         ELSE {[found EXCEPT !.adj = FALSE]}

\* A caller invokes method o with arguments a, b on the idle table.
Begin(o, a, b) ==
    /\ pc = "idle"
    /\ op' = o
    /\ i' = a
    /\ j' = b
    /\ phase' = 1
    /\ r1' = None
    /\ parts0' = parts
    /\ found' \in Earlier(o)
    /\ compressed' = (compressed \/ op \in {"find", "same"})
    /\ UNCHANGED <<n, label>>

\* union with the assignment reversed: self.parts[i] = self.parts[j]
union_Swapped(a, b) ==
    /\ Begin("union", a, b)
    /\ p' = a
    /\ s' = a
    /\ ret' = None
    /\ same_ret' = FALSE
    /\ IF Valid(parts, a) /\ Valid(parts, b)
       THEN /\ parts' = [parts EXCEPT ![a] = parts[b]]
            /\ pc' = "idle"
            /\ unioned' = Link(unioned, a, b)
       ELSE /\ pc' = "panicked"
            /\ UNCHANGED <<parts, unioned>>

\* union storing the argument: self.parts[j] = i
union_ToArg(a, b) ==
    /\ Begin("union", a, b)
    /\ p' = a
    /\ s' = a
    /\ ret' = None
    /\ same_ret' = FALSE
    /\ IF Valid(parts, a) /\ Valid(parts, b)
       THEN /\ parts' = [parts EXCEPT ![b] = a]
            /\ pc' = "idle"
            /\ unioned' = Link(unioned, a, b)
       ELSE /\ pc' = "panicked"
            /\ UNCHANGED <<parts, unioned>>

\* union appending instead of assigning: self.parts.push(self.parts[i])
union_Push(a, b) ==
    /\ Begin("union", a, b)
    /\ p' = a
    /\ s' = a
    /\ ret' = None
    /\ same_ret' = FALSE
    /\ IF Valid(parts, a) /\ Valid(parts, b)
       THEN /\ parts' = [x \in 0 .. len(parts) |->
                            IF Valid(parts, x) THEN parts[x] ELSE parts[a]]
            /\ pc' = "idle"
            /\ unioned' = Link(unioned, a, b)
       ELSE /\ pc' = "panicked"
            /\ UNCHANGED <<parts, unioned>>

\* union(i, j): self.parts[j] = self.parts[i]
union(a, b) ==
    /\ Begin("union", a, b)
    /\ p' = a
    /\ s' = a
    /\ ret' = None
    /\ same_ret' = FALSE
    /\ IF Valid(parts, a) /\ Valid(parts, b)
       THEN /\ parts' = [parts EXCEPT ![b] = parts[a]]
            /\ pc' = "idle"
            /\ unioned' = Link(unioned, a, b)
       ELSE /\ pc' = "panicked"
            /\ UNCHANGED <<parts, unioned>>

\* find(i), find_only(i), same(i, j), same_only(i, j) up to `let mut p = i`.
Call(o, a, b) ==
    /\ Begin(o, a, b)
    /\ p' = a
    /\ s' = a
    /\ ret' = None
    /\ same_ret' = FALSE
    /\ pc' = "seek"
    /\ UNCHANGED <<parts, unioned>>

\* Compressing with the read-only lookups compressing as well
Compressing_All == op \in {"find", "same", "find_only", "same_only"}

Compressing == op \in {"find", "same"}

\* Return with the comparison of same / same_only negated (!= for ==).
Return_NotEqual(v) ==
    CASE op \in {"find", "find_only"} ->
            /\ ret' = v
            /\ pc' = "idle"
            /\ UNCHANGED <<phase, p, r1, same_ret>>
      [] op \in {"same", "same_only"} /\ phase = 1 ->
            /\ r1' = v
            /\ phase' = 2
            /\ p' = j
            /\ pc' = "seek"
            /\ UNCHANGED <<ret, same_ret>>
      [] op \in {"same", "same_only"} /\ phase = 2 ->
            /\ same_ret' = (r1 # v)
            /\ pc' = "idle"
            /\ UNCHANGED <<phase, p, r1, ret>>

\* The call returns element v (find, find_only), or the operand of == is v.
Return(v) ==
    CASE op \in {"find", "find_only"} ->
            /\ ret' = v
            /\ pc' = "idle"
            /\ UNCHANGED <<phase, p, r1, same_ret>>
      [] op \in {"same", "same_only"} /\ phase = 1 ->
            /\ r1' = v
            /\ phase' = 2
            /\ p' = j
            /\ pc' = "seek"
            /\ UNCHANGED <<ret, same_ret>>
      [] op \in {"same", "same_only"} /\ phase = 2 ->
            /\ same_ret' = (r1 = v)
            /\ pc' = "idle"
            /\ UNCHANGED <<phase, p, r1, ret>>

\* SeekPanic with an unchecked read: the call goes on and returns the index
SeekPanic_ReturnsIndex ==
    /\ pc = "seek"
    /\ ~Valid(parts, p)
    /\ Return(p)
    /\ UNCHANGED <<parts, op, i, j, s, parts0, found, compressed,
                   unioned, n, label, next_i>>

\* while self.parts[p] != p { p = self.parts[p] }: the index is out of range
SeekPanic ==
    /\ pc = "seek"
    /\ ~Valid(parts, p)
    /\ pc' = "panicked"
    /\ UNCHANGED <<parts, op, i, j, phase, p, s, r1, ret, same_ret,
                   parts0, found, compressed, unioned, n, label,
                   next_i>>

\* while self.parts[p] != p { p = self.parts[p] }: one iteration
SeekStep ==
    /\ pc = "seek"
    /\ Valid(parts, p)
    /\ parts[p] # p
    /\ p' = parts[p]
    /\ UNCHANGED <<parts, pc, op, i, j, phase, s, r1, ret, same_ret,
                   parts0, found, compressed, unioned, n, label,
                   next_i>>

\* the first loop exits; find goes on with `let mut s = i`
SeekExitFind ==
    /\ pc = "seek"
    /\ Valid(parts, p)
    /\ parts[p] = p
    /\ Compressing
    /\ s' = (IF phase = 1 THEN i ELSE j)
    /\ pc' = "compress"
    /\ UNCHANGED <<parts, op, i, j, phase, p, r1, ret, same_ret,
                   parts0, found, compressed, unioned, n, label,
                   next_i>>

\* the loop exits; find_only returns p
SeekExitOnly ==
    /\ pc = "seek"
    /\ Valid(parts, p)
    /\ parts[p] = p
    /\ ~Compressing
    /\ Return(p)
    /\ UNCHANGED <<parts, op, i, j, s, parts0, found, compressed,
                   unioned, n, label, next_i>>

\* CompressStep with the write left out: { let t = self.parts[s]; s = t }
CompressStep_NoWrite ==
    /\ pc = "compress"
    /\ s # p
    /\ parts' = parts
    /\ s' = parts[s]
    /\ UNCHANGED <<pc, op, i, j, phase, p, r1, ret, same_ret,
                   parts0, found, compressed, unioned, n, label,
                   next_i>>

\* CompressStep writing s for p: self.parts[s] = s
CompressStep_SelfParent ==
    /\ pc = "compress"
    /\ s # p
    /\ parts' = [parts EXCEPT ![s] = s]
    /\ s' = parts[s]
    /\ UNCHANGED <<pc, op, i, j, phase, p, r1, ret, same_ret,
                   parts0, found, compressed, unioned, n, label,
                   next_i>>

\* CompressStep with index and value swapped: self.parts[p] = s
CompressStep_Swapped ==
    /\ pc = "compress"
    /\ s # p
    /\ parts' = [parts EXCEPT ![p] = s]
    /\ s' = parts[s]
    /\ UNCHANGED <<pc, op, i, j, phase, p, r1, ret, same_ret,
                   parts0, found, compressed, unioned, n, label,
                   next_i>>

\* CompressStep reading after writing: { self.parts[s] = p; s = self.parts[s] }
CompressStep_WriteFirst ==
    /\ pc = "compress"
    /\ s # p
    /\ parts' = [parts EXCEPT ![s] = p]
    /\ s' = p
    /\ UNCHANGED <<pc, op, i, j, phase, p, r1, ret, same_ret,
                   parts0, found, compressed, unioned, n, label,
                   next_i>>

\* while s != p { let t = self.parts[s]; self.parts[s] = p; s = t }
CompressStep ==
    /\ pc = "compress"
    /\ s # p
    /\ parts' = [parts EXCEPT ![s] = p]
    /\ s' = parts[s]
    /\ UNCHANGED <<pc, op, i, j, phase, p, r1, ret, same_ret,
                   parts0, found, compressed, unioned, n, label,
                   next_i>>

\* CompressExit returning the argument instead of the root p
CompressExit_ReturnsArg ==
    /\ pc = "compress"
    /\ s = p
    /\ Return(IF phase = 1 THEN i ELSE j)
    /\ UNCHANGED <<parts, op, i, j, s, parts0, found, compressed,
                   unioned, n, label, next_i>>

\* the second loop exits; find returns p
CompressExit ==
    /\ pc = "compress"
    /\ s = p
    /\ Return(p)
    /\ UNCHANGED <<parts, op, i, j, s, parts0, found, compressed,
                   unioned, n, label, next_i>>

UnionCall == \E a, b \in Args : union(a, b) /\ UNCHANGED next_i
FindCall == \E a \in Args : Call("find", a, a) /\ UNCHANGED next_i
FindOnlyCall == \E a \in Args : Call("find_only", a, a) /\ UNCHANGED next_i
SameCall == \E a, b \in Args : Call("same", a, b) /\ UNCHANGED next_i
SameOnlyCall == \E a, b \in Args : Call("same_only", a, b) /\ UNCHANGED next_i

Next ==
    \/ UnionCall
    \/ FindCall
    \/ FindOnlyCall
    \/ SameCall
    \/ SameOnlyCall
    \/ SeekPanic
    \/ SeekStep
    \/ SeekExitFind
    \/ SeekExitOnly
    \/ CompressStep
    \/ CompressExit

Spec == Init /\ [][Next]_vars

\* A call that has started runs on: the caller is single-threaded and no
\* operation suspends, so the running loop always takes its next step.
Step ==
    \/ SeekPanic
    \/ SeekStep
    \/ SeekExitFind
    \/ SeekExitOnly
    \/ CompressStep
    \/ CompressExit

FairSpec == Spec /\ WF_vars(Step)

----------------------------------------------------------------------------
\* A caller that uses union and find only, with valid indices, on tables of
\* up to MaxDeep elements.
InitDeep ==
    \E m \in 0 .. MaxDeep :
        /\ New(m)
        /\ label = NoLabel
        /\ next_i = 0

DeepUnion == \E a, b \in DOMAIN parts : union(a, b) /\ UNCHANGED next_i
DeepFind == \E a \in DOMAIN parts : Call("find", a, a) /\ UNCHANGED next_i

NextDeep ==
    \/ DeepUnion
    \/ DeepFind
    \/ SeekStep
    \/ SeekExitFind
    \/ CompressStep
    \/ CompressExit

SpecDeep == InitDeep /\ [][NextDeep]_vars

----------------------------------------------------------------------------
\* The caller of the module's doc example, for any choice of representatives:
\* label[x] is the representative of x, and a representative is its own
\* (the example has label[x] = x & 1).
Labellings(m) ==
    {c \in [0 .. (m - 1) -> 0 .. (m - 1)] : \A x \in DOMAIN c : c[c[x]] = c[x]}

InitLabel ==
    \E m \in 0 .. MaxN :
        /\ New(m)
        /\ label \in Labellings(m)
        /\ next_i = 0

\* for i in 0..N { parity.union(label(i), i) }
LabelUnion ==
    /\ next_i < n
    /\ union(label[next_i], next_i)
    /\ next_i' = next_i + 1

\* for i in 0..N { let c = parity.find(i); ... }, in any order, repeatedly
LabelFind ==
    /\ next_i = n
    /\ \E a \in DOMAIN parts : Call("find", a, a)
    /\ UNCHANGED next_i

NextLabel ==
    \/ LabelUnion
    \/ LabelFind
    \/ SeekStep
    \/ SeekExitFind
    \/ CompressStep
    \/ CompressExit

SpecLabel == InitLabel /\ [][NextLabel]_vars

----------------------------------------------------------------------------
\* A caller that builds a chain with union alone,
\* for k in (1..n).rev() { uf.union(k - 1, k) },
\* and looks at the table with find_only and same_only at any time.
InitChain ==
    \E m \in 1 .. MaxDeep :
        /\ New(m)
        /\ label = NoLabel
        /\ next_i = m - 1

ChainUnion ==
    /\ next_i >= 1
    /\ union(next_i - 1, next_i)
    /\ next_i' = next_i - 1

ChainFindOnly ==
    /\ \E a \in DOMAIN parts : Call("find_only", a, a)
    /\ UNCHANGED next_i

ChainSameOnly ==
    /\ \E a, b \in DOMAIN parts : Call("same_only", a, b)
    /\ UNCHANGED next_i

NextChain ==
    \/ ChainUnion
    \/ ChainFindOnly
    \/ ChainSameOnly
    \/ SeekStep
    \/ SeekExitOnly

SpecChain == InitChain /\ [][NextChain]_vars

----------------------------------------------------------------------------
\* Vocabulary of the properties.

Elems == DOMAIN parts

Returned(o) == pc = "idle" /\ op = o

Running == pc \in {"seek", "compress"}

\* find_only(x) returns on table f
HasRoot(f, x) == find_only(f, x) # None

\* same_only(x, y) returns true on table f
SamePartition(f, x, y) == HasRoot(f, x) /\ same_only(f, x, y)

----------------------------------------------------------------------------
\* C1 (partition invariant): after new(n) and union calls only, same(i, j)
\* returns true iff i and j are connected in the reflexive-symmetric-
\* transitive closure of the pairs passed to union.
C1_PartitionInvariant ==
    (Returned("same") /\ ~compressed) => (same_ret <=> Connected(i, j))

\* C2 (forest invariant): from every element the parent pointers lead, in
\* finitely many steps, to a root; there is no cycle but a root's self-loop.
C2_Forest == \A x \in Elems : HasRoot(parts, x)

\* C3 (termination): every call of find, find_only, same and same_only with
\* valid indices returns.
C3_Termination ==
    (Running /\ Valid(parts, i) /\ Valid(parts, j)) ~> (pc = "idle")

\* C4 (union merges, never separates): after union(i, j) all elements that
\* were in the partition of i or of j are in one partition, and every pair
\* that was in one partition before the call still is.
InEither0(x) ==
    \/ SamePartition(parts0, x, i)
    \/ SamePartition(parts0, x, j)

C4_UnionMerges ==
    Returned("union") =>
        \A x, y \in Elems :
            /\ (InEither0(x) /\ InEither0(y)) => SamePartition(parts, x, y)
            /\ SamePartition(parts0, x, y) => SamePartition(parts, x, y)

\* C5 (union direction): after union calls only, the canonical element of
\* i and of j right after union(i, j) is the canonical element i had before.
C5_UnionDirection ==
    (Returned("union") /\ ~compressed /\ HasRoot(parts0, i)) =>
        /\ find_only(parts, i) = find_only(parts0, i)
        /\ find_only(parts, j) = find_only(parts0, i)

\* C6 (find / find_only agreement): find(i) returns the element find_only(i)
\* returns on the table the call started on.
C6_FindAgrees ==
    (Returned("find") \/ Returned("find_only")) =>
        /\ HasRoot(parts0, i)
        /\ ret = find_only(parts0, i)

\* find(i) has returned from an element at least two hops below its root
C6_Witness ==
    /\ Returned("find")
    /\ parts0[i] # i
    /\ parts0[parts0[i]] # parts0[i]
    /\ ret = find_only(parts0, i)

\* C7 (find keeps partition membership): for every element k, find_only(k)
\* after find(i) equals find_only(k) before it; likewise after the first
\* and after the second find of same(i, j).
C7_FindKeepsPartitions ==
    (Compressing /\ pc \in {"idle", "seek"}) =>
        \A k \in Elems : find_only(parts, k) = find_only(parts0, k)

\* find(i) has returned and has rewritten parent pointers
C7_Witness ==
    /\ Returned("find")
    /\ parts # parts0
    /\ \A k \in Elems : find_only(parts, k) = find_only(parts0, k)

\* C8 (compression idempotence): after find(i) returns r, parts[i] = r, and
\* a find(i) called directly after it returns r again.
C8_CompressionIdempotent ==
    Returned("find") =>
        /\ parts[i] = ret
        /\ (found.adj /\ found.i = i) =>
                /\ ret = found.ret
                /\ parts0[i] = found.ret

\* find(i) has returned twice in succession, i not being a root
C8_Witness ==
    /\ Returned("find")
    /\ found.adj
    /\ found.i = i
    /\ ret = found.ret
    /\ ret # i

\* C9 (reflexivity and stability): same(i, i) returns true, and find(i)
\* returns what an earlier find(i) returned when no union came in between.
C9_ReflexiveStable ==
    /\ (Returned("same") /\ i = j) => same_ret
    /\ (Returned("find") /\ found.i = i) => ret = found.ret

\* find(i) has returned again after other calls, none of them a union
C9_Witness ==
    /\ Returned("find")
    /\ found.i = i
    /\ ~found.adj
    /\ ret = found.ret
    /\ ret # i

\* C10 (same / same_only agreement): same(i, j) and same_only(i, j) return
\* true iff find_only(i) = find_only(j) on the table the call started on;
\* the operands of == are find_only(i) and find_only(j) of that table.
C10_SameAgrees ==
    (Returned("same") \/ Returned("same_only")) =>
        /\ same_ret = same_only(parts0, i, j)
        /\ r1 = find_only(parts0, i)
        /\ p = find_only(parts0, j)

\* same(i, j) has returned true for two elements and compressed a path
C10_Witness ==
    /\ Returned("same")
    /\ i # j
    /\ same_ret
    /\ parts # parts0

\* Every element of table f is its own parent, as new leaves it.
Fresh(f) == \A x \in DOMAIN f : f[x] = x

\* C11 (new): new(n) yields a table of exactly n elements, each its own
\* root, for every n >= 0; on it find_only(x) and find(x) return x and
\* same_only(x, y) returns true iff x = y.
C11_NewSingletons ==
    /\ op = "new" =>
            /\ DOMAIN parts = 0 .. (n - 1)
            /\ len(parts) = n
            /\ \A x \in Elems : parts[x] = x /\ find_only(parts, x) = x
            /\ \A x, y \in Elems : same_only(parts, x, y) <=> (x = y)
    /\ ((Returned("find") \/ Returned("find_only")) /\ Fresh(parts0)) =>
            ret = i
    /\ (Returned("same_only") /\ Fresh(parts0)) => (same_ret <=> (i = j))

\* find(i) has returned on the table of new(n), n >= 2, before any union
C11_Witness ==
    /\ Returned("find")
    /\ n >= 2
    /\ Fresh(parts0)
    /\ \A c \in unioned : Cardinality(c) = 1
    /\ ~compressed
    /\ ret = i

Methods == {"union", "find", "find_only", "same", "same_only"}

\* the argument the running find / find_only was called with
CurArg == IF phase = 1 THEN i ELSE j

\* C12 (out-of-range access is a hard fault): a call with an argument
\* outside [0, n) never returns; it panics, union before any write and
\* find / find_only at their first access, which is at the offending index;
\* on new(0) every call panics.
C12_OutOfRangeAborts ==
    /\ (pc = "idle" /\ op \in Methods) =>
            Valid(parts, i) /\ Valid(parts, j)
    /\ pc = "panicked" =>
            /\ ~Valid(parts, i) \/ ~Valid(parts, j)
            /\ op = "union" => parts = parts0
            /\ op # "union" =>
                    /\ p = CurArg
                    /\ ~Valid(parts, p)
                    /\ phase = 1 => parts = parts0
    /\ (Running /\ ~Valid(parts, CurArg)) => (pc = "seek" /\ p = CurArg)
    /\ (n = 0 /\ op \in Methods) => pc \in {"seek", "panicked"}

\* same(i, j) has panicked at j after its find(i) compressed a path
C12_Witness ==
    /\ pc = "panicked"
    /\ op = "same"
    /\ Valid(parts, i)
    /\ ~Valid(parts, j)
    /\ parts # parts0

\* C13 (labelling by representatives): after union(label[x], x) for every
\* element x in ascending order on a fresh table, label[c] = c for every
\* representative c, find(x) returns label[x] for every x.
C13_Labelling ==
    (pc = "idle" /\ next_i = n) =>
        /\ \A x \in Elems : find_only(parts, x) = label[x]
        /\ op = "find" => ret = label[i]

\* after the unions, find(i) has returned for an i that is not its own
\* representative, on a table of at least 3 elements
C13_Witness ==
    /\ Returned("find")
    /\ next_i = n
    /\ n >= 3
    /\ label[i] # i
    /\ ret = label[i]

\* C14 (find_only and same_only are pure reads): while and after
\* find_only(i) or same_only(i, j) runs, every entry of parts is as it was
\* when the call started.
C14_OnlyReads == op \in {"find_only", "same_only"} => parts = parts0

\* same_only(i, j) has returned with i two hops or more below its root
C14_Witness ==
    /\ Returned("same_only")
    /\ i # j
    /\ parts0[i] # i
    /\ parts0[parts0[i]] # parts0[i]
    /\ parts = parts0

\* The elements on the parent path of table f from x up to, and without,
\* the root.
RECURSIVE PathBelowRoot(_, _, _)
PathBelowRoot(f, x, fuel) ==
    IF f[x] = x \/ fuel = 0 THEN {}
    ELSE {x} \cup PathBelowRoot(f, f[x], fuel - 1)

Path0 == PathBelowRoot(parts0, i, len(parts0))

\* C15 (full path compression, exact frame): after find(i) returns r, every
\* element that was on the path from i up to r (r excluded) has parent r,
\* parts[r] = r, and every other element has the parent it had.
C15_FullCompression ==
    Returned("find") =>
        /\ parts[ret] = ret
        /\ \A x \in Elems :
               parts[x] = (IF x \in Path0 THEN ret ELSE parts0[x])

\* find(i) has returned after a path of three elements below the root
C15_Witness ==
    /\ Returned("find")
    /\ Cardinality(Path0) >= 3
    /\ \A x \in Path0 : parts[x] = ret

\* C16 (union effect and frame): union(i, j) sets parts[j] to the value
\* parts[i] had before the call and leaves every other entry unchanged;
\* union(i, i) changes nothing.
C16_UnionEffect ==
    Returned("union") =>
        /\ parts[j] = parts0[i]
        /\ \A x \in Elems \ {j} : parts[x] = parts0[x]
        /\ i = j => parts = parts0

\* union(i, j) has stored a parent of i that is neither i nor the root of i
C16_Witness ==
    /\ Returned("union")
    /\ i # j
    /\ parts0[i] # i
    /\ HasRoot(parts0, i)
    /\ parts0[i] # find_only(parts0, i)
    /\ parts[j] = parts0[i]

\* C17 (fixed universe): parts always has exactly the n elements 0..n-1 and
\* every entry is one of them.
C17_FixedUniverse ==
    /\ DOMAIN parts = 0 .. (n - 1)
    /\ len(parts) = n
    /\ \A x \in Elems : parts[x] \in 0 .. (n - 1)

\* unions and a compressing find have run on a table of 3 or more elements
C17_Witness ==
    /\ Returned("find")
    /\ n >= 3
    /\ parts # parts0
    /\ \E c \in unioned : Cardinality(c) >= 3
    /\ len(parts) = n

\* the number of parent hops from x to its root in table f
Hops(f, x) == Cardinality(PathBelowRoot(f, x, len(f)))

\* C18 (long chains by union alone): for every n >= 1 the calls
\* union(n-2, n-1), ..., union(0, 1) on new(n), with no find or same call,
\* leave element n-1 at n-1 parent hops from its root 0.
C18_LongChain ==
    (pc = "idle" /\ next_i = 0) =>
        /\ ~compressed
        /\ parts = [x \in 0 .. (n - 1) |-> IF x = 0 THEN 0 ELSE x - 1]
        /\ find_only(parts, n - 1) = 0
        /\ Hops(parts, n - 1) = n - 1

\* the last union of the chain has returned on a table of 4 or more
\* elements, whose last element is 3 or more hops from its root
C18_Witness ==
    /\ Returned("union")
    /\ next_i = 0
    /\ n >= 4
    /\ Hops(parts, n - 1) >= 3
    /\ parts[n - 1] # find_only(parts, n - 1)

Roots(f) == {x \in DOMAIN f : f[x] = x}

\* C19 (roots are never created): after a union, find or same call the set
\* of roots is a subset of the set of roots before the call, and find and
\* same leave it unchanged.
C19_RootsNeverCreated ==
    (pc = "idle" /\ op \in {"union", "find", "same"}) =>
        /\ Roots(parts) \subseteq Roots(parts0)
        /\ op \in {"find", "same"} => Roots(parts) = Roots(parts0)
====
